---- MODULE Spec2Model ----
(***************************************************************************)
(* Replay scheduler of dt-replay-demo (src/replay/scheduler.py) and its    *)
(* consumer run_publish (src/replay/publisher.py).                         *)
(*                                                                         *)
(* Units.  Simulated timestamps are whole seconds.  Wall-clock instants    *)
(* and durations are whole milliseconds.  A speed is an integer count of   *)
(* 1/10000ths, so that the floor 0.0001 of scheduler.py:144 is 1 and       *)
(* speed 1.0 is 10000.  The speeds and timestamps the model draws make     *)
(* every division of scheduler.py:152 exact.                               *)
(*                                                                         *)
(* An optional value (None, NaT, NaN) is the empty tuple <<>>; a present   *)
(* value v is the one-element tuple <<v>>.                                 *)
(***************************************************************************)
EXTENDS Integers, Sequences, FiniteSets

VARIABLES
    cfg,          \* AppCfg: speed, start, end, streams (config.py:31-37)
    pc,           \* position of merged_events / run_publish
    err,          \* the exception that ended the run, "" when none
    loaded,       \* number of streams _load_stream has returned for
    frames,       \* frames of scheduler.py:100 (the loaded DataFrames)
    iters,        \* the df.iterrows() iterators of scheduler.py:115
    heaps,        \* the heap list of scheduler.py:110
    tie,          \* next value of count() of scheduler.py:111
    sim_start_ts, \* scheduler.py:127
    wall_start,   \* scheduler.py:143
    speed,        \* scheduler.py:144
    prev_ts,      \* scheduler.py:145
    cur,          \* the entry popped at scheduler.py:148
    sleep_time,   \* scheduler.py:154-161
    now,          \* the clock time.perf_counter() reads
    yielded,      \* events yielded so far at scheduler.py:171
    emit_at,      \* the clock at each yield
    waits,        \* the durations passed to asyncio.sleep, in order
    clamped,      \* some wait of this run was capped at scheduler.py:161
    overhead,     \* some publish call of this run took time
    transmitted,  \* (topic, msg) pairs client.publish accepted
    event_count,  \* publisher.py:15
    notes         \* what the type loop of scheduler.py:48-68 did, per stream

vars == <<cfg, pc, err, loaded, frames, iters, heaps, tie, sim_start_ts,
          wall_start, speed, prev_ts, cur, sleep_time, now, yielded, emit_at,
          waits, clamped, overhead, transmitted, event_count, notes>>

----------------------------------------------------------------------------
(* Bounds and input domains *)

MaxRows == 3                    \* rows in all CSV files of a configuration

None == <<>>
NaT == <<>>
NaN == <<>>

StreamIds == <<"a", "b">>       \* ascending in Python's string order
Latencies == {0, 2500}          \* time one client.publish call takes

\* inputs of Spec: files with unparseable cells, both drop policies, a window
TsValues == {0, 5, 10}          \* the wall-time readings a CSV cell may hold
Speeds == {0, 100000}           \* 0 and 10.0
Bounds == {None, <<5>>}         \* cfg.start / cfg.end

\* inputs of SpecPace: every speed class and gaps on both sides of the ceiling
PaceValues == {0, 5, 10, 11}
PaceSpeeds == {0, 0 - 10000, 10000, 100000}   \* 0, -1.0, 1.0, 10.0

Max(a, b) == IF a > b THEN a ELSE b

----------------------------------------------------------------------------
(* Timestamps: pandas.Timestamp values, already in UTC, or NaT *)

\* pd.Timestamp.__lt__ / __le__ / __eq__: every comparison with NaT is False
TsLt(x, y) == x # NaT /\ y # NaT /\ x[1] < y[1]
TsLe(x, y) == x # NaT /\ y # NaT /\ x[1] <= y[1]
TsEq(x, y) == x # NaT /\ y # NaT /\ x[1] = y[1]

\* str.__lt__ on the stream ids of the model
IdRank(id) == CHOOSE i \in 1..Len(StreamIds) : StreamIds[i] = id
StrLt(s, t) == IdRank(s) < IdRank(t)

----------------------------------------------------------------------------
(* _parse_ts, scheduler.py:15-32.                                          *)
(* A CSV cell is [ok, wall, off]: ok says the text is a date at all, wall  *)
(* is the wall time it spells, off the UTC offset it spells (None when the *)
(* text carries no zone).  A format never has a zone directive, so a text  *)
(* with a zone does not match it.  A parsed value is [wall, tzinfo] or NaT.*)

\* the UTC offset of a zone name: "UTC", or a zone east of it
TzOffset(tzname) == IF tzname = "UTC" THEN 0 ELSE 5

to_datetime_fmt(s) ==
    IF s.ok /\ s.off = None THEN <<[wall |-> s.wall, tzinfo |-> None]>> ELSE NaT

to_datetime_utc(s) ==
    IF ~s.ok THEN NaT
    ELSE IF s.off = None THEN <<[wall |-> s.wall, tzinfo |-> <<0>>]>>
    ELSE <<[wall |-> s.wall - s.off[1], tzinfo |-> <<0>>]>>

tz_localize(p, tzname) ==
    IF p = NaT THEN NaT ELSE <<[wall |-> p[1].wall, tzinfo |-> <<TzOffset(tzname)>>]>>

tz_convert_utc(p) ==
    IF p = NaT THEN NaT ELSE <<p[1].wall - p[1].tzinfo[1]>>

HasTzinfo(p) == p # NaT /\ p[1].tzinfo # None

_parse_ts(s, fmt, tzname) ==
    LET ts0 == IF fmt # None THEN to_datetime_fmt(s) ELSE to_datetime_utc(s)
        ts1 == IF tzname # None /\ ~HasTzinfo(ts0)
               THEN tz_localize(ts0, tzname[1]) ELSE ts0
    IN  IF HasTzinfo(ts1) THEN tz_convert_utc(ts1)
        ELSE tz_convert_utc(tz_localize(ts1, "UTC"))

----------------------------------------------------------------------------
(* _load_stream, scheduler.py:35-83.  A row of a frame is [idx, ts]: idx   *)
(* is the row's place in the CSV file and stands for its fields, ts is the *)
(* internal '_ts' column.                                                  *)

\* the per-column type labels of s.schema["types"], scheduler.py:48
NoTypes == <<>>

\* scheduler.py:49, 54, 59: the kind of cast a type label asks for
Kind(t) ==
    IF t \in {"float", "number", "float64"} THEN "float"
    ELSE IF t \in {"int", "int64", "integer"} THEN "int"
    ELSE IF t \in {"str", "string"} THEN "str"
    ELSE "unknown"

\* scheduler.py:48-68: the columns cast, each with the kind of its cast, and
\* the columns a warning or note was printed about
coerce_types(s) ==
    [cast |-> {<<c, Kind(s.types[c])>> :
                 c \in {d \in DOMAIN s.types :
                          Kind(s.types[d]) # "unknown" /\ d \in s.csv.columns}},
     printed |-> {c \in DOMAIN s.types : c \notin s.csv.columns}]

\* mutant: the time column is not looked for
TimeColUnchecked(s) == FALSE

\* scheduler.py:71
TimeColMissing(s) == s.time_col \notin s.csv.columns

\* scheduler.py:78
AddTs(s) ==
    [i \in 1..Len(s.csv.rows) |->
        [idx |-> i, ts |-> _parse_ts(s.csv.rows[i], s.time_fmt, s.tz)]]

\* mutant: rows with a NaT timestamp are kept
keep_all(rows) == rows

\* DataFrame.dropna(subset=["_ts"]), scheduler.py:81
dropna(rows) == SelectSeq(rows, LAMBDA r : r.ts # NaT)

Perms(n) == {f \in [1..n -> 1..n] : \A i, j \in 1..n : f[i] = f[j] => i = j}

\* _ts ascending with NaT last (na_position="last")
IsSorted(rows) ==
    \A i \in 1..(Len(rows) - 1) :
        \/ rows[i + 1].ts = NaT
        \/ TsLe(rows[i].ts, rows[i + 1].ts)

\* DataFrame.sort_values("_ts"), scheduler.py:83.  The default kind is
\* "quicksort", which does not promise to keep equal keys in row order: every
\* ascending arrangement of the rows is a result the library may return.
sort_values(rows) ==
    {r \in {[i \in 1..Len(rows) |-> rows[f[i]]] : f \in Perms(Len(rows))} :
        IsSorted(r)}

\* mutant: rows with a NaT timestamp are dropped whatever drop_na_time says
_load_stream_dropping(s) == sort_values(dropna(AddTs(s)))

\* the frames _load_stream may return for a stream whose time column exists
_load_stream(s) ==
    sort_values(IF s.drop_na_time THEN dropna(AddTs(s)) ELSE AddTs(s))

----------------------------------------------------------------------------
(* _clip, scheduler.py:86-92 *)

\* mutant: the start bound is exclusive
_clip_exclusive(df, start, end) ==
    LET df1 == IF start # None
               THEN SelectSeq(df, LAMBDA r : TsLt(start, r.ts)) ELSE df
    IN  IF end # None
        THEN SelectSeq(df1, LAMBDA r : TsLe(r.ts, end)) ELSE df1

\* mutant: a row with a null timestamp passes both bounds
_clip_keepna(df, start, end) ==
    LET df1 == IF start # None
               THEN SelectSeq(df, LAMBDA r : r.ts = NaT \/ TsLe(start, r.ts))
               ELSE df
    IN  IF end # None
        THEN SelectSeq(df1, LAMBDA r : r.ts = NaT \/ TsLe(r.ts, end)) ELSE df1

\* mutant: the start bound also cuts the first row it keeps
_clip_tail(df, start, end) ==
    LET df0 == IF start # None
               THEN SelectSeq(df, LAMBDA r : TsLe(start, r.ts)) ELSE df
        df1 == IF start # None /\ df0 # <<>> THEN Tail(df0) ELSE df0
    IN  IF end # None
        THEN SelectSeq(df1, LAMBDA r : TsLe(r.ts, end)) ELSE df1

_clip(df, start, end) ==
    LET df1 == IF start # None
               THEN SelectSeq(df, LAMBDA r : TsLe(start, r.ts)) ELSE df
    IN  IF end # None
        THEN SelectSeq(df1, LAMBDA r : TsLe(r.ts, end)) ELSE df1

----------------------------------------------------------------------------
(* heapq on entries (ts, stream_id, tie, it, row), scheduler.py:109-110.   *)
(* it is the place of the stream in cfg.streams and names its iterator.    *)
(* Positions are 0-based as in heapq; heap[p + 1] is the item at p.        *)

\* mutant: entries keyed by (ts, tie) alone
TupleLessNoId(x, y) ==
    IF ~(x[1] = NaT /\ y[1] = NaT) /\ ~TsEq(x[1], y[1]) THEN TsLt(x[1], y[1])
    ELSE x[3] < y[3]

\* tuple.__lt__: the first component on which the two differ decides.  Two
\* components are the same when they are one object (NaT is a singleton) or
\* compare equal.  Ties are never equal, so it and row are never compared.
TupleLess(x, y) ==
    IF ~(x[1] = NaT /\ y[1] = NaT) /\ ~TsEq(x[1], y[1]) THEN TsLt(x[1], y[1])
    ELSE IF x[2] # y[2] THEN StrLt(x[2], y[2])
    ELSE x[3] < y[3]

RECURSIVE SiftDownPos(_, _, _, _)
\* heapq._siftdown: the place newitem comes to rest, and the parents moved down
SiftDownPos(heap, startpos, pos, newitem) ==
    IF pos > startpos
    THEN LET parentpos == (pos - 1) \div 2
             parent == heap[parentpos + 1]
         IN  IF TupleLess(newitem, parent)
             THEN SiftDownPos([heap EXCEPT ![pos + 1] = parent],
                              startpos, parentpos, newitem)
             ELSE [heap EXCEPT ![pos + 1] = newitem]
    ELSE [heap EXCEPT ![pos + 1] = newitem]

_siftdown(heap, startpos, pos) == SiftDownPos(heap, startpos, pos, heap[pos + 1])

RECURSIVE SiftUpPos(_, _, _, _)
\* heapq._siftup: bubble the smaller child up until a leaf, then sift newitem down
SiftUpPos(heap, startpos, pos, newitem) ==
    LET endpos == Len(heap)
        childpos == 2 * pos + 1
        rightpos == childpos + 1
        pick == IF rightpos < endpos
                   /\ ~TupleLess(heap[childpos + 1], heap[rightpos + 1])
                THEN rightpos ELSE childpos
    IN  IF childpos < endpos
        THEN SiftUpPos([heap EXCEPT ![pos + 1] = heap[pick + 1]],
                       startpos, pick, newitem)
        ELSE _siftdown([heap EXCEPT ![pos + 1] = newitem], startpos, pos)

_siftup(heap, pos) == SiftUpPos(heap, pos, pos, heap[pos + 1])

\* mutant: list.append in place of heapq.heappush
list_append(heap, item) == Append(heap, item)

heappush(heap, item) == _siftdown(Append(heap, item), 0, Len(heap))

\* heappop on a non-empty heap: the item returned and the heap left
heappop(heap) ==
    LET lastelt == heap[Len(heap)]
        rest == SubSeq(heap, 1, Len(heap) - 1)
    IN  IF rest # <<>>
        THEN [item |-> rest[1], heap |-> _siftup([rest EXCEPT ![1] = lastelt], 0)]
        ELSE [item |-> lastelt, heap |-> rest]

----------------------------------------------------------------------------
(* The iterators df.iterrows() of scheduler.py:115: [df, pos], pos the     *)
(* place of the row the next call of next() returns.                       *)

\* next(it) raises StopIteration
Exhausted(it) == it.pos > Len(it.df)

\* scheduler.py:113-120: arm the heap with the head of every clipped frame,
\* frames i..Len(frames), from the state st = [heaps, tie, iters]
RECURSIVE ArmFrom(_, _, _, _, _)
ArmFrom(i, st, ss, fs, win) ==
    IF i > Len(fs) THEN st
    ELSE LET df == _clip(fs[i], win[1], win[2])
             it == [df |-> df, pos |-> 1]
         IN  IF Exhausted(it)
             THEN ArmFrom(i + 1, [st EXCEPT !.iters = Append(@, it)], ss, fs, win)
             ELSE ArmFrom(i + 1,
                    [heaps |-> heappush(st.heaps,
                                 <<df[1].ts, ss[i].id, st.tie, i, df[1]>>),
                     tie |-> st.tie + 1,
                     iters |-> Append(st.iters, [it EXCEPT !.pos = 2])],
                    ss, fs, win)

\* mutant: the arming loop stops after the first stream
ArmedFirstOnly(ss, fs, win) ==
    ArmFrom(1, [heaps |-> <<>>, tie |-> 0, iters |-> <<>>], ss,
            IF fs = <<>> THEN fs ELSE <<fs[1]>>, win)

Armed(ss, fs, win) ==
    ArmFrom(1, [heaps |-> <<>>, tie |-> 0, iters |-> <<>>], ss, fs, win)

----------------------------------------------------------------------------
(* Pacing, scheduler.py:142-164 *)

SpeedFloor == 1                 \* 0.0001, in 1/10000ths
Ceiling == 2000                 \* 2 seconds, in milliseconds
MsPerSecond == 1000 * 10000     \* milliseconds per second, per speed unit

\* mutant: the banner is printed before the test for an empty heap
DivFaultEarly(cfgspeed, h) == cfgspeed = 0

\* scheduler.py:140: the division by cfg.speed in the banner, reached only
\* past the return of scheduler.py:122-124
DivFault(cfgspeed, h) == h # <<>> /\ cfgspeed = 0

\* scheduler.py:144
EffSpeed(cfgspeed) == Max(SpeedFloor, cfgspeed)

\* mutant: the simulated delta is not divided by the speed
target_wall_unscaled(ws, ts, sim0, sp) ==
    IF ts = NaT \/ sim0 = NaT THEN NaN
    ELSE <<ws + ((ts[1] - sim0[1]) * MsPerSecond) \div 10000>>

\* scheduler.py:151-152; NaN when ts or sim_start_ts is NaT
target_wall(ws, ts, sim0, sp) ==
    IF ts = NaT \/ sim0 = NaT THEN NaN
    ELSE <<ws + ((ts[1] - sim0[1]) * MsPerSecond) \div sp>>

\* scheduler.py:153-154
SleepTime(target, t) == IF target = NaN THEN NaN ELSE <<target[1] - t>>

\* mutant: the wait is compared with the ceiling in the wrong unit
OverCeilingScaled(st) == st # NaN /\ st[1] > 1000 * Ceiling

\* scheduler.py:159: a NaN compares False
OverCeiling(st) == st # NaN /\ st[1] > Ceiling

\* mutant: the wait is never capped
NoCap(st) == st

\* mutant: a wait over the ceiling is cut to half the ceiling
CapWaitHalf(st) == IF OverCeiling(st) THEN <<Ceiling \div 2>> ELSE st

\* scheduler.py:159-161
CapWait(st) == IF OverCeiling(st) THEN <<Ceiling>> ELSE st

\* mutant: a wait of zero is slept too
MustSleepNonNeg(st) == st # NaN /\ st[1] >= 0

\* scheduler.py:163
MustSleep(st) == st # NaN /\ st[1] > 0

----------------------------------------------------------------------------
(* Configurations, config.py:16-37 *)

BadCell == [ok |-> FALSE, wall |-> 0, off |-> None]
GoodCells(V) == {[ok |-> TRUE, wall |-> w, off |-> None] : w \in V}

\* a file with the time column and n rows, or (n = 0) a file without it
CsvFiles(cells, n) ==
    {[columns |-> {"t", "v"}, rows |-> r] : r \in [1..n -> cells]}
    \cup (IF n = 0 THEN {[columns |-> {"v"}, rows |-> <<>>]} ELSE {})

Topic(id) == <<"replay", id>>

StreamCfgs(id, cells, drops, n) ==
    [id : {id}, csv : CsvFiles(cells, n), topic : {Topic(id)}, time_col : {"t"},
     time_fmt : {None}, tz : {None}, types : {NoTypes}, drop_na_time : drops]

\* zero, one or two streams whose files hold at most MaxRows rows together
StreamLists(cells, drops) ==
    {<<>>}
    \cup UNION {{<<sa>> : sa \in StreamCfgs("a", cells, drops, n)} : n \in 0..MaxRows}
    \cup UNION {{<<sa, sb>> : sa \in StreamCfgs("a", cells, drops, n[1]),
                              sb \in StreamCfgs("b", cells, drops, n[2])} :
                n \in {m \in (0..MaxRows) \X (0..MaxRows) : m[1] + m[2] <= MaxRows}}

AppCfgs ==
    [speed : Speeds, start : Bounds, end : Bounds,
     streams : StreamLists(GoodCells(TsValues) \cup {BadCell}, BOOLEAN)]

PaceCfgs ==
    [speed : PaceSpeeds, start : {None}, end : {None},
     streams : StreamLists(GoodCells(PaceValues), {TRUE})]

\* inputs of SpecLoad: one stream whose cells may spell a zone or be no date,
\* with and without a format, a timezone name and a type map
LoadRows == 2                   \* rows in the CSV file of a loader input
LoadWalls == {0, 5}
Offsets == {None, <<5>>}        \* the UTC offset a cell spells, in seconds
Formats == {None, <<"%Y-%m-%d %H:%M:%S">>}
TzNames == {None, <<"UTC">>, <<"Asia/Karachi">>}
TypeLabels == {"float", "int64", "string", "datetime"}

LoadCells ==
    {BadCell} \cup {[ok |-> TRUE, wall |-> w, off |-> o] : w \in LoadWalls, o \in Offsets}

\* no entry, or one entry for the column "v" the file has or for "w" it lacks
TypeMaps == {NoTypes} \cup UNION {[{c} -> TypeLabels] : c \in {"v", "w"}}

LoadStreamCfgs ==
    [id : {"a"}, csv : UNION {CsvFiles(LoadCells, n) : n \in 0..LoadRows},
     topic : {Topic("a")}, time_col : {"t"}, time_fmt : Formats, tz : TzNames,
     types : TypeMaps, drop_na_time : BOOLEAN]

LoadCfgs ==
    [speed : Speeds, start : {None}, end : {None},
     streams : {<<s>> : s \in LoadStreamCfgs}]

\* scheduler.py:106-107
Window(c) == <<c.start, c.end>>

----------------------------------------------------------------------------
(* The run: run_publish drives merged_events *)

NoEntry == <<>>

Start ==
    /\ pc = "load"
    /\ err = ""
    /\ loaded = 0
    /\ frames = <<>>
    /\ iters = <<>>
    /\ heaps = <<>>
    /\ tie = 0
    /\ sim_start_ts = NaT
    /\ wall_start = 0
    /\ speed = 0
    /\ prev_ts = NaT
    /\ cur = NoEntry
    /\ sleep_time = NaN
    /\ now = 0
    /\ yielded = <<>>
    /\ emit_at = <<>>
    /\ waits = <<>>
    /\ clamped = FALSE
    /\ overhead = FALSE
    /\ transmitted = <<>>
    /\ event_count = 0
    /\ notes = <<>>

Init == cfg \in AppCfgs /\ Start

InitPace == cfg \in PaceCfgs /\ Start

InitLoad == cfg \in LoadCfgs /\ Start

\* scheduler.py:101-103, one stream: _load_stream returns a frame
LoadStream ==
    /\ pc = "load" /\ loaded < Len(cfg.streams)
    /\ ~TimeColMissing(cfg.streams[loaded + 1])
    /\ \E df \in _load_stream(cfg.streams[loaded + 1]) :
           frames' = Append(frames, df)
    /\ loaded' = loaded + 1
    /\ notes' = Append(notes, coerce_types(cfg.streams[loaded + 1]))
    /\ UNCHANGED <<cfg, pc, err, iters, heaps, tie, sim_start_ts, wall_start,
                   speed, prev_ts, cur, sleep_time, now, yielded, emit_at,
                   waits, clamped, overhead, transmitted, event_count>>

\* scheduler.py:70-75: _load_stream raises ValueError, which leaves
\* merged_events and run_publish (publisher.py:30-32)
LoadError ==
    /\ pc = "load" /\ loaded < Len(cfg.streams)
    /\ TimeColMissing(cfg.streams[loaded + 1])
    /\ pc' = "error" /\ err' = "ValueError"
    /\ notes' = Append(notes, coerce_types(cfg.streams[loaded + 1]))
    /\ UNCHANGED <<cfg, loaded, frames, iters, heaps, tie, sim_start_ts,
                   wall_start, speed, prev_ts, cur, sleep_time, now, yielded,
                   emit_at, waits, clamped, overhead, transmitted, event_count>>

\* scheduler.py:105-124 with no head to push: "No events to replay", return.
\* ArmEmpty, ArmFault and ArmRun are the three ways out of scheduler.py:105-145.
ArmEmpty ==
    /\ pc = "load" /\ loaded = Len(cfg.streams)
    /\ LET st == Armed(cfg.streams, frames, Window(cfg))
       IN  /\ st.heaps = <<>>
           /\ ~DivFault(cfg.speed, st.heaps)
           /\ iters' = st.iters /\ tie' = st.tie /\ heaps' = st.heaps
    /\ pc' = "done"
    /\ UNCHANGED <<cfg, notes, err, loaded, frames, sim_start_ts, wall_start, speed,
                   prev_ts, cur, sleep_time, now, yielded, emit_at, waits,
                   clamped, overhead, transmitted, event_count>>

\* scheduler.py:105-140: the banner divides by cfg.speed, ZeroDivisionError
ArmFault ==
    /\ pc = "load" /\ loaded = Len(cfg.streams)
    /\ LET st == Armed(cfg.streams, frames, Window(cfg))
       IN  /\ DivFault(cfg.speed, st.heaps)
           /\ iters' = st.iters /\ tie' = st.tie /\ heaps' = st.heaps
           /\ sim_start_ts' = IF st.heaps = <<>> THEN sim_start_ts
                              ELSE st.heaps[1][1]
    /\ pc' = "error" /\ err' = "ZeroDivisionError"
    /\ UNCHANGED <<cfg, notes, loaded, frames, wall_start, speed, prev_ts, cur,
                   sleep_time, now, yielded, emit_at, waits, clamped, overhead,
                   transmitted, event_count>>

\* scheduler.py:105-145: heads pushed, reference points taken, loop entered
ArmRun ==
    /\ pc = "load" /\ loaded = Len(cfg.streams)
    /\ LET st == Armed(cfg.streams, frames, Window(cfg))
       IN  /\ st.heaps # <<>>
           /\ ~DivFault(cfg.speed, st.heaps)
           /\ iters' = st.iters /\ tie' = st.tie /\ heaps' = st.heaps
           /\ sim_start_ts' = st.heaps[1][1]
           /\ prev_ts' = st.heaps[1][1]
    /\ wall_start' = now
    /\ speed' = EffSpeed(cfg.speed)
    /\ pc' = "pop"
    /\ UNCHANGED <<cfg, notes, err, loaded, frames, cur, sleep_time, now, yielded,
                   emit_at, waits, clamped, overhead, transmitted, event_count>>

\* mutant: every message goes to the topic of the first stream
TopicOfFirst(stream_id) == cfg.streams[1].topic

\* scheduler.py:170: the row without the internal column
Payload(row) == [idx |-> row.idx]

\* scheduler.py:171
Event(e) == <<e[1], e[2], Payload(e[5])>>

\* mutant: a record popped behind schedule is dropped to catch up
PopYieldSkipLate ==
    /\ pc = "pop" /\ heaps # <<>>
    /\ LET p == heappop(heaps)
           st == SleepTime(target_wall(wall_start, p.item[1], sim_start_ts, speed), now)
           late == st # NaN /\ st[1] < 0
       IN  /\ ~MustSleep(CapWait(st))
           /\ heaps' = p.heap
           /\ cur' = p.item
           /\ sleep_time' = CapWait(st)
           /\ clamped' = (clamped \/ OverCeiling(st))
           /\ prev_ts' = p.item[1]
           /\ yielded' = IF late THEN yielded ELSE Append(yielded, Event(p.item))
           /\ emit_at' = IF late THEN emit_at ELSE Append(emit_at, now)
           /\ pc' = IF late THEN "refill" ELSE "yielded"
    /\ UNCHANGED <<cfg, notes, err, loaded, frames, iters, tie, sim_start_ts,
                   wall_start, speed, now, waits, overhead, transmitted,
                   event_count>>

\* scheduler.py:147-171 when no wait is due: pop, pace, yield at once
PopYield ==
    /\ pc = "pop" /\ heaps # <<>>
    /\ LET p == heappop(heaps)
           st == SleepTime(target_wall(wall_start, p.item[1], sim_start_ts, speed), now)
       IN  /\ ~MustSleep(CapWait(st))
           /\ heaps' = p.heap
           /\ cur' = p.item
           /\ sleep_time' = CapWait(st)
           /\ clamped' = (clamped \/ OverCeiling(st))
           /\ prev_ts' = p.item[1]
           /\ yielded' = Append(yielded, Event(p.item))
    /\ emit_at' = Append(emit_at, now)
    /\ pc' = "yielded"
    /\ UNCHANGED <<cfg, notes, err, loaded, frames, iters, tie, sim_start_ts,
                   wall_start, speed, now, waits, overhead, transmitted,
                   event_count>>

\* scheduler.py:147-164 when a wait is due: pop, pace, suspend in asyncio.sleep
PopSleep ==
    /\ pc = "pop" /\ heaps # <<>>
    /\ LET p == heappop(heaps)
           st == SleepTime(target_wall(wall_start, p.item[1], sim_start_ts, speed), now)
       IN  /\ MustSleep(CapWait(st))
           /\ heaps' = p.heap
           /\ cur' = p.item
           /\ sleep_time' = CapWait(st)
           /\ clamped' = (clamped \/ OverCeiling(st))
           /\ waits' = Append(waits, CapWait(st)[1])
    /\ pc' = "sleep"
    /\ UNCHANGED <<cfg, notes, err, loaded, frames, iters, tie, sim_start_ts,
                   wall_start, speed, prev_ts, now, yielded, emit_at, overhead,
                   transmitted, event_count>>

\* mutant: after a capped wait the schedule is moved to the instant of the yield
WakeRebase ==
    /\ pc = "sleep"
    /\ now' = now + sleep_time[1]
    /\ wall_start' = IF OverCeiling(SleepTime(target_wall(wall_start, cur[1],
                                                          sim_start_ts, speed), now))
                     THEN now' ELSE wall_start
    /\ sim_start_ts' = IF wall_start' # wall_start THEN cur[1] ELSE sim_start_ts
    /\ prev_ts' = cur[1]
    /\ yielded' = Append(yielded, Event(cur))
    /\ emit_at' = Append(emit_at, now')
    /\ pc' = "yielded"
    /\ UNCHANGED <<cfg, notes, err, loaded, frames, iters, heaps, tie,
                   speed, cur, sleep_time, waits, clamped, overhead,
                   transmitted, event_count>>

\* scheduler.py:164-171: asyncio.sleep returns, the event is yielded
Wake ==
    /\ pc = "sleep"
    /\ now' = now + sleep_time[1]
    /\ prev_ts' = cur[1]
    /\ yielded' = Append(yielded, Event(cur))
    /\ emit_at' = Append(emit_at, now')
    /\ pc' = "yielded"
    /\ UNCHANGED <<cfg, notes, err, loaded, frames, iters, heaps, tie, sim_start_ts,
                   wall_start, speed, cur, sleep_time, waits, clamped, overhead,
                   transmitted, event_count>>

\* Timestamp.isoformat(), publisher.py:21
isoformat(ts) == IF ts = NaT THEN <<"NaT">> ELSE <<ts[1], "+00:00">>

\* publisher.py:20
TopicOf(stream_id) ==
    LET i == CHOOSE i \in 1..Len(cfg.streams) :
                 /\ cfg.streams[i].id = stream_id
                 /\ \A j \in 1..(i - 1) : cfg.streams[j].id # stream_id
    IN  cfg.streams[i].topic

\* publisher.py:21
Msg(ev) == [ts |-> isoformat(ev[1]), stream |-> ev[2], data |-> ev[3]]

\* mutant: the next row of the stream is pushed while client.publish is
\* still pending
PublishAhead ==
    /\ pc = "yielded"
    /\ \E lat \in Latencies :
           /\ now' = now + lat
           /\ overhead' = (overhead \/ lat > 0)
    /\ event_count' = event_count + 1
    /\ LET ev == yielded[Len(yielded)]
       IN  transmitted' = Append(transmitted, <<TopicOf(ev[2]), Msg(ev)>>)
    /\ LET it == iters[cur[4]]
           row2 == it.df[it.pos]
       IN  IF ~Exhausted(it)
           THEN /\ heaps' = heappush(heaps, <<row2.ts, cur[2], tie, cur[4], row2>>)
                /\ tie' = tie + 1
                /\ iters' = [iters EXCEPT ![cur[4]].pos = @ + 1]
           ELSE UNCHANGED <<heaps, tie, iters>>
    /\ pc' = IF heaps' = <<>> THEN "done" ELSE "pop"
    /\ UNCHANGED <<cfg, notes, err, loaded, frames, sim_start_ts, wall_start,
                   speed, prev_ts, cur, sleep_time, yielded, emit_at, waits,
                   clamped>>

\* publisher.py:18-24: the loop body of run_publish, client.publish succeeds
\* after lat milliseconds (an event with a NaT timestamp gets here only when its
\* row has a truthy created_at field)
Publish ==
    /\ pc = "yielded"
    /\ \E lat \in Latencies :
           /\ now' = now + lat
           /\ overhead' = (overhead \/ lat > 0)
    /\ event_count' = event_count + 1
    /\ LET ev == yielded[Len(yielded)]
       IN  transmitted' = Append(transmitted, <<TopicOf(ev[2]), Msg(ev)>>)
    /\ pc' = "refill"
    /\ UNCHANGED <<cfg, notes, err, loaded, frames, iters, heaps, tie, sim_start_ts,
                   wall_start, speed, prev_ts, cur, sleep_time, yielded,
                   emit_at, waits, clamped>>

\* publisher.py:22: NaT.strftime raises ValueError unless the row has a truthy
\* created_at field; publisher.py:24: client.publish may raise MqttError
PublishErrors(ev) ==
    {"MqttError"} \cup (IF ev[1] = NaT THEN {"ValueError"} ELSE {})

\* mutant: the failed client.publish call is made again for the same event
PublishFailRetry ==
    /\ pc = "yielded"
    /\ \E e \in PublishErrors(yielded[Len(yielded)]) : err' = e
    /\ UNCHANGED <<cfg, notes, pc, loaded, frames, iters, heaps, tie, sim_start_ts,
                   wall_start, speed, prev_ts, cur, sleep_time, now, yielded,
                   emit_at, waits, clamped, overhead, transmitted, event_count>>

\* mutant: the handler of publisher.py:30-32 logs the error and the loop goes
\* on with the next event
PublishFailSwallow ==
    /\ pc = "yielded"
    /\ event_count' = event_count + 1
    /\ pc' = "refill"
    /\ \E e \in PublishErrors(yielded[Len(yielded)]) : err' = e
    /\ UNCHANGED <<cfg, notes, loaded, frames, iters, heaps, tie, sim_start_ts,
                   wall_start, speed, prev_ts, cur, sleep_time, now, yielded,
                   emit_at, waits, clamped, overhead, transmitted>>

\* publisher.py:19-24, 30-32: the loop body raises, run_publish re-raises
PublishFail ==
    /\ pc = "yielded"
    /\ event_count' = event_count + 1
    /\ pc' = "error"
    /\ \E e \in PublishErrors(yielded[Len(yielded)]) : err' = e
    /\ UNCHANGED <<cfg, notes, loaded, frames, iters, heaps, tie, sim_start_ts,
                   wall_start, speed, prev_ts, cur, sleep_time, now, yielded,
                   emit_at, waits, clamped, overhead, transmitted>>

\* run.py:10-13, scheduler.py:164: the task is cancelled while merged_events
\* is suspended in asyncio.sleep; CancelledError is no Exception, so only the
\* finally clause of publisher.py:33-34 runs
CancelSleep ==
    /\ pc = "sleep"
    /\ pc' = "cancelled" /\ err' = "CancelledError"
    /\ UNCHANGED <<cfg, notes, loaded, frames, iters, heaps, tie, sim_start_ts,
                   wall_start, speed, prev_ts, cur, sleep_time, now, yielded,
                   emit_at, waits, clamped, overhead, transmitted, event_count>>

\* run.py:10-13, publisher.py:19-24: the task is cancelled while run_publish
\* is suspended in client.publish; the message has left or has not
CancelPublish ==
    /\ pc = "yielded"
    /\ event_count' = event_count + 1
    /\ LET ev == yielded[Len(yielded)]
       IN  \E sent \in BOOLEAN :
               transmitted' = IF sent
                              THEN Append(transmitted, <<TopicOf(ev[2]), Msg(ev)>>)
                              ELSE transmitted
    /\ pc' = "cancelled" /\ err' = "CancelledError"
    /\ UNCHANGED <<cfg, notes, loaded, frames, iters, heaps, tie, sim_start_ts,
                   wall_start, speed, prev_ts, cur, sleep_time, now, yielded,
                   emit_at, waits, clamped, overhead>>

\* mutant: the last row of a frame is never handed out
HasNextShort(it) == it.pos < Len(it.df)

\* iterator exhaustion test of next(it), scheduler.py:175
HasNext(it) == ~Exhausted(it)

\* mutant: the refill pushes with the number 0 instead of a fresh one
RefillStale ==
    /\ pc = "refill"
    /\ LET it == iters[cur[4]]
           row2 == it.df[it.pos]
       IN  IF HasNext(it)
           THEN /\ heaps' = heappush(heaps, <<row2.ts, cur[2], 0, cur[4], row2>>)
                /\ tie' = tie
                /\ iters' = [iters EXCEPT ![cur[4]].pos = @ + 1]
           ELSE UNCHANGED <<heaps, tie, iters>>
    /\ pc' = IF heaps' = <<>> THEN "done" ELSE "pop"
    /\ UNCHANGED <<cfg, notes, err, loaded, frames, sim_start_ts, wall_start, speed,
                   prev_ts, cur, sleep_time, now, yielded, emit_at, waits,
                   clamped, overhead, transmitted, event_count>>

\* scheduler.py:173-180: the consumer asks for the next event; push the next
\* row of the stream just emitted, then test the loop condition
Refill ==
    /\ pc = "refill"
    /\ LET it == iters[cur[4]]
           row2 == it.df[it.pos]
       IN  IF HasNext(it)
           THEN /\ heaps' = heappush(heaps, <<row2.ts, cur[2], tie, cur[4], row2>>)
                /\ tie' = tie + 1
                /\ iters' = [iters EXCEPT ![cur[4]].pos = @ + 1]
           ELSE UNCHANGED <<heaps, tie, iters>>
    /\ pc' = IF heaps' = <<>> THEN "done" ELSE "pop"
    /\ UNCHANGED <<cfg, notes, err, loaded, frames, sim_start_ts, wall_start, speed,
                   prev_ts, cur, sleep_time, now, yielded, emit_at, waits,
                   clamped, overhead, transmitted, event_count>>

Next ==
    \/ LoadStream
    \/ LoadError
    \/ ArmEmpty
    \/ ArmFault
    \/ ArmRun
    \/ PopYield
    \/ PopSleep
    \/ Wake
    \/ Publish
    \/ PublishFail
    \/ CancelSleep
    \/ CancelPublish
    \/ Refill

Spec == Init /\ [][Next]_vars

SpecPace == InitPace /\ [][Next]_vars

SpecLoad == InitLoad /\ [][Next]_vars

----------------------------------------------------------------------------
(* Properties *)

AllLoaded == loaded = Len(cfg.streams)

\* the rows of stream i that survive loading and clipping
ClipOf(i) == _clip(frames[i], cfg.start, cfg.end)

\* places <<i, k>>: row k of the clipped frame of stream i
ClippedPlaces ==
    {p \in (1..Len(frames)) \X (1..MaxRows) : p[2] <= Len(ClipOf(p[1]))}

PairAt(p) == <<ClipOf(p[1])[p[2]].ts, cfg.streams[p[1]].id>>

YieldedPair(k) == <<yielded[k][1], yielded[k][2]>>

\* no row with a null timestamp survives loading and clipping
NoNullTs == \A p \in ClippedPlaces : PairAt(p)[1] # NaT

\* the wall clock ran behind the ideal instant of some yielded event
Behind(k) ==
    /\ yielded[k][1] # NaT /\ sim_start_ts # NaT
    /\ emit_at[k] > target_wall(wall_start, yielded[k][1], sim_start_ts, speed)[1]

\* C1 (completeness): when merged_events has run to completion, every
\* (timestamp, stream id) pair is yielded exactly as many times as it occurs
\* among the loaded, clipped rows of the configured streams: no row is yielded
\* twice and none is skipped, whether the schedule was ahead or behind.
C1_Completeness ==
    pc = "done" =>
        /\ Len(yielded) = Cardinality(ClippedPlaces)
        /\ \A q \in {PairAt(p) : p \in ClippedPlaces}
                    \cup {YieldedPair(k) : k \in 1..Len(yielded)} :
              Cardinality({k \in 1..Len(yielded) : YieldedPair(k) = q})
                = Cardinality({p \in ClippedPlaces : PairAt(p) = q})

\* a completed run of two streams in which a row was cut by the window, the
\* first event was on time and the second was yielded behind schedule
C1_Witness ==
    /\ pc = "done" /\ Len(yielded) = 2
    /\ {yielded[k][2] : k \in 1..2} = {"a", "b"}
    /\ ~Behind(1) /\ Behind(2)
    /\ \E i \in 1..Len(frames) : Len(ClipOf(i)) < Len(frames[i])

\* C2 as claimed (global order): any two consecutively yielded events have
\* e[i].ts <= e[i+1].ts, in every run.
C2_GlobalOrder_AsClaimed ==
    \A k \in 1..(Len(yielded) - 1) : TsLe(yielded[k][1], yielded[k + 1][1])

\* C2 as amended (global order): in every run in which no row with a null
\* timestamp survives loading and clipping, any two consecutively yielded
\* events have e[i].ts <= e[i+1].ts.
C2_GlobalOrder ==
    (AllLoaded /\ NoNullTs) =>
        \A k \in 1..(Len(yielded) - 1) : TsLe(yielded[k][1], yielded[k + 1][1])

\* three events of two interleaved streams, timestamps all different, the
\* second stream's row yielded between the two rows of the first
C2_Witness ==
    /\ AllLoaded /\ NoNullTs /\ Len(yielded) = 3
    /\ <<yielded[1][2], yielded[2][2], yielded[3][2]>> = <<"a", "b", "a">>
    /\ TsLt(yielded[1][1], yielded[2][1]) /\ TsLt(yielded[2][1], yielded[3][1])
    /\ cfg.streams[1].csv.rows[1].wall = 10

\* the merge of scheduler.py:113-120 and 147-178 with the clock left out: the
\* events in the order the heap hands them out, from the armed state st
RECURSIVE MergeFrom(_, _)
MergeFrom(st, out) ==
    IF st.heaps = <<>> THEN out
    ELSE LET p == heappop(st.heaps)
             it == st.iters[p.item[4]]
             row2 == it.df[it.pos]
         IN  IF HasNext(it)
             THEN MergeFrom(
                    [heaps |-> heappush(p.heap,
                                 <<row2.ts, p.item[2], st.tie, p.item[4], row2>>),
                     tie |-> st.tie + 1,
                     iters |-> [st.iters EXCEPT ![p.item[4]].pos = @ + 1]],
                    Append(out, Event(p.item)))
             ELSE MergeFrom([st EXCEPT !.heaps = p.heap],
                            Append(out, Event(p.item)))

\* a function of the configuration and the loaded rows, and of nothing else
PureMerge == MergeFrom(Armed(cfg.streams, frames, Window(cfg)), <<>>)

IsPrefix(s, t) == Len(s) <= Len(t) /\ s = SubSeq(t, 1, Len(s))

\* the place of a yielded event's row in its stream's loaded frame
PlaceInFrame(ev) ==
    LET i == CHOOSE i \in 1..Len(cfg.streams) : cfg.streams[i].id = ev[2]
    IN  CHOOSE k \in 1..Len(frames[i]) : frames[i][k].idx = ev[3].idx

\* C3 (deterministic tie-break): the sequence of (timestamp, stream id, row)
\* triples yielded so far is always a prefix of one sequence fixed by the
\* configuration and the loaded rows alone, whatever the clock read and
\* however long the sleeps and the publish calls took; and two events with
\* the same timestamp come out in one fixed order: by stream id, and within a
\* stream in the order of the loaded frame.
C3_Deterministic ==
    AllLoaded =>
        /\ IsPrefix(yielded, PureMerge)
        /\ \A k \in 1..(Len(yielded) - 1) :
              TsEq(yielded[k][1], yielded[k + 1][1]) =>
                  \/ StrLt(yielded[k][2], yielded[k + 1][2])
                  \/ /\ yielded[k][2] = yielded[k + 1][2]
                     /\ PlaceInFrame(yielded[k]) < PlaceInFrame(yielded[k + 1])

\* stream b's row was pushed before stream a's second row, both carry the same
\* timestamp, and a's is yielded first; the run was behind schedule by then
C3_Witness ==
    /\ Len(yielded) = 3 /\ overhead
    /\ <<yielded[1][2], yielded[2][2], yielded[3][2]>> = <<"a", "a", "b">>
    /\ TsLt(yielded[1][1], yielded[2][1]) /\ TsEq(yielded[2][1], yielded[3][1])

\* C4 (speed floor): with a configured speed <= 0 and at least one event to
\* replay, the run raises no division-by-zero fault, every event is still
\* yielded, and no single wait exceeds the ceiling.
C4_SpeedFloor ==
    (cfg.speed <= 0 /\ AllLoaded /\ ClippedPlaces # {}) =>
        /\ err # "ZeroDivisionError"
        /\ \A k \in 1..Len(waits) : waits[k] <= Ceiling
        /\ pc = "done" => Len(yielded) = Cardinality(ClippedPlaces)

\* the simulated gap between yielded events k and k+1, in milliseconds of
\* wall clock at the effective speed, times the speed (so that no division
\* is needed to compare it with the ceiling)
ScaledGap(k) == (yielded[k + 1][1][1] - yielded[k][1][1]) * MsPerSecond

BothTimed(k) == yielded[k][1] # NaT /\ yielded[k + 1][1] # NaT

WallGap(k) == emit_at[k + 1] - emit_at[k]

\* C5 (gap compression): with no emitter or loop overhead, two consecutively
\* yielded events whose simulated gap G has G/speed > 2 s are yielded exactly
\* 2 s of wall clock apart.
C5_GapCompression ==
    ~overhead =>
        \A k \in 1..(Len(yielded) - 1) :
            (BothTimed(k) /\ ScaledGap(k) > Ceiling * speed) =>
                WallGap(k) = Ceiling

\* speed 1.0: three events 5 s and 5 s apart are yielded 2 s and 2 s apart
C5_Witness ==
    /\ ~overhead /\ cfg.speed = 10000 /\ Len(yielded) = 3
    /\ <<yielded[1][1], yielded[2][1], yielded[3][1]>> = <<<<0>>, <<5>>, <<10>>>>
    /\ emit_at = <<0, 2000, 4000>>

\* C6 as claimed (speed scaling): with no emitter or loop overhead, two
\* consecutively yielded events whose simulated gap D has D/speed < 2 s are
\* yielded D/speed of wall clock apart, also after an earlier compressed gap.
C6_SpeedScaling ==
    ~overhead =>
        \A k \in 1..(Len(yielded) - 1) :
            (BothTimed(k) /\ ScaledGap(k) < Ceiling * speed) =>
                WallGap(k) * speed = ScaledGap(k)

\* C7 (ideal-instant schedule): in a run with no emitter or loop overhead in
\* which no computed wait has exceeded the ceiling, every event is yielded
\* exactly at wall_start + (ts - sim_start_ts) / speed.
C7_IdealInstant ==
    (~overhead /\ ~clamped) =>
        \A k \in 1..Len(yielded) :
            (yielded[k][1] # NaT /\ sim_start_ts # NaT) =>
                (emit_at[k] - wall_start) * speed
                    = (yielded[k][1][1] - sim_start_ts[1]) * MsPerSecond

\* sensor-a [T0, T0+10s] and sensor-b [T0+5s] at speed 10: a, b, a yielded
\* 0.5 s and 0.5 s apart
C7_Witness ==
    /\ ~overhead /\ ~clamped /\ cfg.speed = 100000
    /\ yielded = <<<<<<0>>, "a", [idx |-> 1]>>, <<<<5>>, "b", [idx |-> 1]>>,
                   <<<<10>>, "a", [idx |-> 2]>>>>
    /\ emit_at = <<wall_start, wall_start + 500, wall_start + 1000>>

\* every stream has been loaded and none has a row left after clipping
EmptyInput == AllLoaded /\ ClippedPlaces = {}

\* C8 (empty input): with zero streams configured, or every stream empty
\* after loading and clipping, merged_events finishes without yielding,
\* without sleeping and without an error, whatever the configured speed: the
\* one step such a run takes after loading ends it.
C8_EmptyInput ==
    /\ [](EmptyInput =>
            /\ pc \in {"load", "done"} /\ err = ""
            /\ yielded = <<>> /\ waits = <<>> /\ transmitted = <<>>)
    /\ [][(EmptyInput /\ pc = "load") => pc' = "done"]_vars

\* speed 0, two streams with rows, all of them outside the window: done
C8_Witness ==
    /\ EmptyInput /\ pc = "done" /\ cfg.speed = 0
    /\ Len(frames) = 2 /\ frames[1] # <<>> /\ frames[2] # <<>>

SomeTimeColMissing ==
    \E i \in 1..Len(cfg.streams) : cfg.streams[i].time_col \notin cfg.streams[i].csv.columns

\* C9 (configuration error before any emission): if the time column is
\* missing from the file of any configured stream, wherever it stands in the
\* list, no event is ever yielded or transmitted, the run never enters the
\* merge loop and never completes: it ends in the loader's ValueError.
C9_ConfigError ==
    /\ [](SomeTimeColMissing =>
            /\ yielded = <<>> /\ transmitted = <<>> /\ event_count = 0
            /\ pc \in {"load", "error"}
            /\ pc = "error" => err = "ValueError")
    /\ [][(SomeTimeColMissing /\ pc = "load") =>
            (pc' = "error" \/ loaded' = loaded + 1)]_vars

\* the second stream's file lacks the column, the first stream loaded two rows
C9_Witness ==
    /\ pc = "error" /\ err = "ValueError" /\ yielded = <<>>
    /\ Len(cfg.streams) = 2 /\ loaded = 1 /\ Len(frames[1]) = 2

\* the rows of stream i's file whose timestamp text is a date
Parseable(i) == {k \in 1..Len(cfg.streams[i].csv.rows) : cfg.streams[i].csv.rows[k].ok}

AllDrop == \A i \in 1..Len(cfg.streams) : cfg.streams[i].drop_na_time

\* C10 (drop policy): with drop_na_time=true the loaded frame of a stream
\* holds each row whose timestamp parsed exactly once and no other row, in
\* ascending timestamp order; a run of such streams is never ended by an
\* unparseable timestamp (its only ValueError is the missing column's); and
\* such a run without a window that completes has yielded exactly the
\* remaining rows, in ascending timestamp order.
C10_DropPolicy ==
    /\ \A i \in 1..Len(frames) :
          cfg.streams[i].drop_na_time =>
              /\ {frames[i][k].idx : k \in 1..Len(frames[i])} = Parseable(i)
              /\ Len(frames[i]) = Cardinality(Parseable(i))
              /\ \A k \in 1..Len(frames[i]) : frames[i][k].ts # NaT
              /\ \A k \in 1..(Len(frames[i]) - 1) :
                    TsLe(frames[i][k].ts, frames[i][k + 1].ts)
    /\ (AllDrop /\ err = "ValueError") => SomeTimeColMissing
    /\ (AllDrop /\ pc = "done" /\ cfg.start = None /\ cfg.end = None) =>
          /\ {<<yielded[k][2], yielded[k][3].idx>> : k \in 1..Len(yielded)}
               = UNION {{cfg.streams[i].id} \X Parseable(i) : i \in 1..Len(frames)}
          /\ Len(yielded) = Cardinality(UNION {{i} \X Parseable(i) : i \in 1..Len(frames)})
          /\ \A k \in 1..(Len(yielded) - 1) : TsLe(yielded[k][1], yielded[k + 1][1])

\* one stream of three rows, the second unparseable and the other two out of
\* order: exactly two events, the later row first
C10_Witness ==
    /\ pc = "done" /\ Len(cfg.streams) = 1 /\ cfg.streams[1].drop_na_time
    /\ Len(cfg.streams[1].csv.rows) = 3 /\ Parseable(1) = {1, 3}
    /\ yielded = <<<<<<0>>, "a", [idx |-> 3]>>, <<<<10>>, "a", [idx |-> 1]>>>>

\* the message of publisher.py:20-24 for a yielded event
Wire(ev) == <<TopicOf(ev[2]), Msg(ev)>>

\* C11 (transport failure): when a client.publish call fails, the error leaves
\* run_publish (the run is in its error state, one event counted per yielded
\* event), the failed event is not among the transmitted messages, and
\* nothing happens afterwards: no further transmission, pop, sleep or refill.
C11_TransportFailure ==
    /\ [](err = "MqttError" =>
            /\ pc = "error"
            /\ event_count = Len(yielded)
            /\ Len(transmitted) = Len(yielded) - 1
            /\ \A k \in 1..Len(transmitted) :
                  transmitted[k] # Wire(yielded[Len(yielded)]))
    /\ [][err # "MqttError"]_vars

\* the second publish call failed after the first succeeded, with records
\* still waiting in the heap and in an iterator
C11_Witness ==
    /\ pc = "error" /\ err = "MqttError"
    /\ Len(yielded) = 2 /\ Len(transmitted) = 1
    /\ transmitted[1] = Wire(yielded[1])
    /\ heaps # <<>>

\* C12 (prefix property): in every reachable state, also after the run was
\* ended by a transport error or by a cancellation at the pacing sleep or at
\* the publish call, the transmitted messages are, in order, the messages of
\* the first events of the complete emission sequence: none missing in
\* between, none twice, none out of place.
C12_Prefix ==
    /\ ~AllLoaded => transmitted = <<>>
    /\ AllLoaded =>
          LET all == PureMerge
          IN  /\ Len(transmitted) <= Len(all)
              /\ \A k \in 1..Len(transmitted) : transmitted[k] = Wire(all[k])

\* a run of three events cancelled inside the second publish call, whose
\* message did not leave: one message transmitted, two events counted
C12_Witness ==
    /\ pc = "cancelled" /\ Len(PureMerge) = 3
    /\ Len(yielded) = 2 /\ event_count = 2
    /\ transmitted = <<Wire(PureMerge[1])>>

\* C13 (slow emitter never reorders): however long the publish calls take,
\* the messages transmitted are those of the yielded events, one by one in
\* the order merged_events yielded them, and that order is the one fixed by
\* the input alone; a slow publish only moves later emission instants forward
\* (they never go back), and a run that completes has transmitted every
\* loaded, clipped row, none dropped for being late.
C13_SlowEmitter ==
    /\ Len(transmitted) <= Len(yielded) /\ Len(yielded) <= Len(transmitted) + 1
    /\ \A k \in 1..Len(transmitted) : transmitted[k] = Wire(yielded[k])
    /\ AllLoaded => IsPrefix(yielded, PureMerge)
    /\ \A k \in 1..(Len(emit_at) - 1) : emit_at[k] <= emit_at[k + 1]
    /\ pc = "done" => Len(transmitted) = Cardinality(ClippedPlaces)

\* a completed run of two streams and three events in which every publish
\* call took 2.5 s and the second and third events were yielded late
C13_Witness ==
    /\ pc = "done" /\ overhead /\ Len(transmitted) = 3
    /\ {yielded[k][2] : k \in 1..3} = {"a", "b"}
    /\ ~Behind(1) /\ Behind(2) /\ Behind(3)
    /\ emit_at[2] >= emit_at[1] + 2500 /\ emit_at[3] >= emit_at[2] + 2500

\* the windows _clip is tried with, next to the configured one
ClipBounds == {None, <<0>>, <<5>>, <<10>>}

\* start <= ts <= end, each bound applied only if present
InWindow(ts, start, end) ==
    /\ start # None => TsLe(start, ts)
    /\ end # None => TsLe(ts, end)

\* r holds exactly the rows of df inside the window, as one unbroken run of df
IsWindowOf(r, df, start, end) ==
    LET K == {k \in 1..Len(df) : InWindow(df[k].ts, start, end)}
    IN  /\ Len(r) = Cardinality(K)
        /\ K # {} => \E a \in K : /\ K = a..(a + Len(r) - 1)
                                  /\ r = SubSeq(df, a, a + Len(r) - 1)

\* C14 (window clipping): for every loaded frame (rows in ascending timestamp
\* order) and every combination of present and absent bounds, _clip returns
\* exactly the rows with start <= ts <= end, both bounds inclusive, in their
\* original order, and they form a contiguous run of the frame (tried on each
\* frame as it is loaded); the frame merged_events iterates is such a result
\* for the configured window.
C14_WindowClipping ==
    \A i \in 1..Len(frames) :
        /\ pc = "load" =>
              \A s \in ClipBounds, e \in ClipBounds :
                  IsWindowOf(_clip(frames[i], s, e), frames[i], s, e)
        /\ AllLoaded /\ pc # "load" =>
              /\ iters[i].df = ClipOf(i)
              /\ IsWindowOf(iters[i].df, frames[i], cfg.start, cfg.end)

\* a frame of three rows at 0, 5 and 10 s clipped to start = end = 5 s: the
\* middle row alone is iterated and yielded
C14_Witness ==
    /\ Len(frames) = 1 /\ Len(frames[1]) = 3 /\ pc = "yielded"
    /\ cfg.start = <<5>> /\ cfg.end = <<5>>
    /\ <<frames[1][1].ts, frames[1][2].ts, frames[1][3].ts>> = <<<<0>>, <<5>>, <<10>>>>
    /\ iters[1].df = <<frames[1][2]>>
    /\ yielded = <<Event(<<<<5>>, "a", 0, 1, frames[1][2]>>)>>

\* the row sequences of the run: the loaded frames and the unsorted rows of
\* the files they were made from
RowSeqs ==
    {frames[i] : i \in 1..Len(frames)}
      \cup {AddTs(cfg.streams[i]) :
              i \in {j \in 1..Len(cfg.streams) : ~TimeColMissing(cfg.streams[j])}}

\* C15 (idempotent clipping): for every row sequence and every pair of bounds,
\* clipping the result of _clip again with the same bounds changes nothing
\* (tried on the row sequences of the run while it loads);
\* the second clipping of each frame in merged_events, scheduler.py:131-132,
\* gives the rows the first one gave.
C15_IdempotentClip ==
    /\ pc = "load" =>
          \A rows \in RowSeqs : \A s \in ClipBounds, e \in ClipBounds :
              _clip(_clip(rows, s, e), s, e) = _clip(rows, s, e)
    /\ AllLoaded /\ pc # "load" =>
          \A i \in 1..Len(frames) :
              /\ _clip(iters[i].df, cfg.start, cfg.end) = iters[i].df
              /\ _clip(frames[i], cfg.start, cfg.end) = iters[i].df

\* a frame with rows on both sides of the window and a null timestamp was
\* clipped to a non-empty proper part, and the run went on to yield from it
C15_Witness ==
    /\ Len(frames) = 1 /\ Len(frames[1]) = 3 /\ Len(yielded) = 1
    /\ cfg.start = <<5>> /\ cfg.end = None
    /\ frames[1][1].ts = <<0>> /\ frames[1][2].ts = <<10>> /\ frames[1][3].ts = NaT
    /\ iters[1].df = <<frames[1][2]>>
    /\ _clip(iters[1].df, cfg.start, cfg.end) = iters[1].df

\* the stream a transmitted message names, as a place in cfg.streams
OwnerOf(m) == CHOOSE i \in 1..Len(cfg.streams) : cfg.streams[i].id = m[2].stream

Popped == pc \in {"sleep", "yielded", "refill"}

\* the entries left in the heap whose timestamp equals the popped record's
EqualTsLeft == {k \in 1..Len(heaps) : TsEq(heaps[k][1], cur[1])}

RECURSIVE SumSeq(_)
SumSeq(s) == IF s = <<>> THEN 0 ELSE Head(s) + SumSeq(Tail(s))

\* C18 (wait ceiling): every duration handed to asyncio.sleep is at most 2 s,
\* at every speed (the floor included) and for every simulated gap; there is
\* at most one sleep per popped record, so the time slept in a run never
\* exceeds 2 s per record popped, and 2*n s in a completed run of n events.
C18_WaitCeiling ==
    /\ \A k \in 1..Len(waits) : waits[k] > 0 /\ waits[k] <= Ceiling
    /\ pc = "sleep" => sleep_time = <<waits[Len(waits)]>>
    /\ Len(waits) <= Len(yielded) + (IF pc \in {"sleep", "cancelled"} THEN 1 ELSE 0)
    /\ SumSeq(waits) <= Ceiling * Len(waits)
    /\ pc = "done" => SumSeq(waits) <= Ceiling * Len(yielded)

\* three rows 5 s apart replayed at the floor speed (configured -1.0): the
\* two waits, 50000 s each by the schedule, were both 2 s
C18_Witness ==
    /\ pc = "done" /\ speed = SpeedFloor /\ Len(yielded) = 3
    /\ yielded[2][1][1] = yielded[1][1][1] + 5
    /\ waits = <<Ceiling, Ceiling>>

\* the sleep merged_events computes for the record at the root of the heap
RootSleep ==
    SleepTime(target_wall(wall_start, heaps[1][1], sim_start_ts, speed), now)

\* C19 (behind schedule): whenever the sleep computed for the popped record
\* (the minimum of the heap) is zero or negative, the step that pops it does
\* not suspend: no wait is recorded, the clock does not move, and that very
\* record is yielded in the same step, not a later one.
C19_BehindSchedule ==
    [][(pc = "pop" /\ RootSleep # NaN /\ RootSleep[1] <= 0) =>
          /\ pc' = "yielded"
          /\ waits' = waits /\ now' = now
          /\ cur' = heaps[1]
          /\ yielded' = Append(yielded, Event(heaps[1]))
          /\ emit_at' = Append(emit_at, now)]_vars

\* the first publish call took 2.5 s, so the second record, due 0.5 s after
\* the start, was popped 2 s late and yielded at once with no wait recorded
C19_Witness ==
    /\ pc = "yielded" /\ Len(yielded) = 2 /\ waits = <<>>
    /\ sleep_time = <<0 - 2000>>
    /\ emit_at = <<0, 2500>>
    /\ yielded[2] = Event(cur) /\ heaps # <<>>

\* C20 (Done is terminal): merged_events is in Done only with the heap empty
\* and the iterator of every configured stream exhausted; Done is entered by
\* a step that leaves the heap empty, from a state that is not Done; and no
\* step is taken from Done: no pop, sleep, emission or refill, no second entry.
C20_DoneTerminal ==
    /\ [](pc = "done" =>
            /\ heaps = <<>>
            /\ Len(iters) = Len(cfg.streams)
            /\ \A i \in 1..Len(iters) : Exhausted(iters[i]))
    /\ [][pc' = "done" => (pc # "done" /\ heaps' = <<>>)]_vars
    /\ [][pc # "done"]_vars

\* Done after three events of two streams, both iterators at their end and
\* every event transmitted
C20_Witness ==
    /\ pc = "done" /\ Len(cfg.streams) = 2 /\ heaps = <<>>
    /\ Len(yielded) = 3 /\ Len(transmitted) = 3
    /\ iters[1].pos = 3 /\ iters[2].pos = 2
    /\ Len(iters[1].df) = 2 /\ Len(iters[2].df) = 1

\* the run was ended by a pacing sleep or a transmit call that did not return
SleepOrTransmitFailed == err \in {"MqttError", "CancelledError"}

\* C21 (termination), in its finite-run form: a run whose input could be
\* loaded (every time column exists) and in which every pacing sleep and every
\* transmit call returns is never ended short of Done; the only states without
\* a next step are Done, with one loop iteration per clipped, non-dropped row,
\* and the states a failed sleep or transmit left.  Stated for the runs that
\* get past the banner of scheduler.py:140 (speed other than 0).
C21_Termination ==
    /\ (pc \in {"error", "cancelled"} /\ ~SomeTimeColMissing /\ cfg.speed # 0) =>
          SleepOrTransmitFailed
    /\ pc = "done" => Len(yielded) = Cardinality(ClippedPlaces)

\* the number of events of stream i yielded so far
Emitted(i) ==
    Cardinality({k \in 1..Len(yielded) : yielded[k][2] = cfg.streams[i].id})

\* the streams that have an entry in the heap, as places in cfg.streams
HeapStreams == {heaps[k][4] : k \in 1..Len(heaps)}

\* C22 (one head per stream): at the start of every loop iteration, the first
\* included, the heap holds exactly one entry for each stream that still has
\* un-emitted clipped rows and none for any other stream, and that entry is
\* the stream's next un-emitted row (its earliest row when the loop is
\* entered); the heap never holds more entries than there are streams.
C22_OneHeadPerStream ==
    /\ Len(heaps) <= Len(cfg.streams)
    /\ pc = "pop" =>
          /\ Cardinality(HeapStreams) = Len(heaps)
          /\ HeapStreams = {i \in 1..Len(frames) : Emitted(i) < Len(ClipOf(i))}
          /\ \A k \in 1..Len(heaps) :
                LET i == heaps[k][4]
                IN  /\ heaps[k][5] = ClipOf(i)[Emitted(i) + 1]
                    /\ heaps[k][1] = heaps[k][5].ts
                    /\ heaps[k][2] = cfg.streams[i].id

\* third iteration of a run of two streams: stream a has yielded one of its
\* two rows, stream b its only row, and the heap holds a's second row alone
C22_Witness ==
    /\ pc = "pop" /\ Len(cfg.streams) = 2 /\ Len(yielded) = 2
    /\ Emitted(1) = 1 /\ Emitted(2) = 1
    /\ Len(ClipOf(1)) = 2 /\ Len(ClipOf(2)) = 1
    /\ Len(heaps) = 1 /\ heaps[1][5] = ClipOf(1)[2]

\* the reference points of scheduler.py:127 and 143 have been taken
Referenced ==
    AllLoaded /\ pc # "load" /\ ClippedPlaces # {} /\ err # "ZeroDivisionError"

\* sim_start_ts is a clipped row's timestamp and no clipped row has a smaller
\* one; every yielded event has ts - sim_start_ts >= 0 and an ideal instant
\* not before wall_start
SimStartIsMin ==
    /\ \E p \in ClippedPlaces : sim_start_ts = PairAt(p)[1]
    /\ \A p \in ClippedPlaces : TsLe(sim_start_ts, PairAt(p)[1])
    /\ \A k \in 1..Len(yielded) :
          /\ TsLe(sim_start_ts, yielded[k][1])
          /\ target_wall(wall_start, yielded[k][1], sim_start_ts, speed) # NaN
          /\ target_wall(wall_start, yielded[k][1], sim_start_ts, speed)[1] >= wall_start

\* C23 as claimed (simStart is the global minimum): in every run the
\* reference timestamp taken from the top of the heap after arming is the
\* smallest timestamp among all clipped rows of all streams, so every emitted
\* event has ts - simStart >= 0 and an ideal instant not before wallStart.
C23_SimStartMin_AsClaimed == Referenced => SimStartIsMin

\* C23 as amended: the same, in every run in which no row with a null
\* timestamp survives loading and clipping.
C23_SimStartMin == (Referenced /\ NoNullTs) => SimStartIsMin

\* stream a starts at 5 s, stream b, listed second, at 0 s: the reference is
\* b's 0 s, and a's row is yielded with ts - simStart = 5 s
C23_Witness ==
    /\ Referenced /\ NoNullTs /\ Len(cfg.streams) = 2
    /\ Len(ClipOf(1)) = 1 /\ Len(ClipOf(2)) = 1
    /\ ClipOf(1)[1].ts = <<5>> /\ ClipOf(2)[1].ts = <<0>>
    /\ sim_start_ts = <<0>>
    /\ Len(yielded) = 2 /\ yielded[2] = <<<<5>>, "a", [idx |-> ClipOf(1)[1].idx]>>

\* the entries of a heap list, as a set
Entries(h) == {h[k] : k \in 1..Len(h)}

\* the events of stream i yielded so far, in the order they were yielded
YieldedOf(i) == SelectSeq(yielded, LAMBDA e : e[2] = cfg.streams[i].id)

\* C24 (refill from the originating stream): the step after the emission of a
\* record of stream S adds to the heap exactly the next clipped row of S, if
\* there is one, under a number no entry has had before, and adds nothing
\* otherwise; it takes nothing from any other stream.  The counter is always
\* above every number in the heap, and the events of each stream are yielded
\* in the order of that stream's loaded, clipped frame.
C24_RefillOrigin ==
    /\ [](/\ \A k \in 1..Len(heaps) : heaps[k][3] < tie
          /\ AllLoaded =>
                \A i \in 1..Len(frames) :
                    /\ Len(YieldedOf(i)) <= Len(ClipOf(i))
                    /\ \A j \in 1..Len(YieldedOf(i)) :
                          YieldedOf(i)[j] = <<ClipOf(i)[j].ts, cfg.streams[i].id,
                                              [idx |-> ClipOf(i)[j].idx]>>)
    /\ [][pc = "refill" =>
            LET i == cur[4]
                n == Emitted(i)
            IN  /\ \A j \in (1..Len(iters)) \ {i} : iters'[j] = iters[j]
                /\ IF n < Len(ClipOf(i))
                   THEN /\ Entries(heaps') =
                             Entries(heaps) \cup
                               {<<ClipOf(i)[n + 1].ts, cfg.streams[i].id, tie, i,
                                  ClipOf(i)[n + 1]>>}
                        /\ Len(heaps') = Len(heaps) + 1
                        /\ tie' = tie + 1
                   ELSE heaps' = heaps /\ tie' = tie]_vars

\* stream b's row was yielded between the two rows of stream a, and the
\* refill after a's first row pushed a's second row under the number 2
C24_Witness ==
    /\ pc = "done" /\ Len(cfg.streams) = 2 /\ tie = 3
    /\ Len(YieldedOf(1)) = 2 /\ Len(YieldedOf(2)) = 1
    /\ yielded[1][2] = "a" /\ yielded[2][2] = "b" /\ yielded[3][2] = "a"
    /\ cur[3] = 2 /\ cur[5] = ClipOf(1)[2]

\* C25 (stable load order): every frame _load_stream returns is in ascending
\* order of parsed timestamp, and its rows with equal timestamps are in their
\* original row order; so events of one stream with equal timestamps are
\* yielded in original row order.
C25_StableLoad ==
    /\ \A i \in 1..Len(frames) : \A k, l \in 1..Len(frames[i]) :
          k < l =>
              /\ ~TsLt(frames[i][l].ts, frames[i][k].ts)
              /\ TsEq(frames[i][k].ts, frames[i][l].ts) =>
                    frames[i][k].idx < frames[i][l].idx
    /\ \A k, l \in 1..Len(yielded) :
          (k < l /\ yielded[k][2] = yielded[l][2]
                 /\ TsEq(yielded[k][1], yielded[l][1])) =>
              yielded[k][3].idx < yielded[l][3].idx

\* the cell of the CSV file a loaded row of stream i was parsed from
CellOf(i, row) == cfg.streams[i].csv.rows[row.idx]

\* the UTC offset of the stream's configured timezone name, UTC when none
ConfiguredOffset(i) ==
    IF cfg.streams[i].tz = None THEN 0 ELSE TzOffset(cfg.streams[i].tz[1])

\* C26 (timezone localisation): every timestamp that _parse_ts could parse
\* from a text without a zone is the text's wall time taken in the stream's
\* configured timezone (UTC when none is given) and converted to UTC, with a
\* format and without one; a text that spells a zone gives its own instant
\* in UTC.
C26_TzLocalisation ==
    \A i \in 1..Len(frames) : \A k \in 1..Len(frames[i]) :
        LET row == frames[i][k]
            cell == CellOf(i, row)
        IN  row.ts # NaT =>
                row.ts = IF cell.off = None
                         THEN <<cell.wall - ConfiguredOffset(i)>>
                         ELSE <<cell.wall - cell.off[1]>>

\* the type labels _load_stream casts for
Recognised ==
    {"float", "number", "float64", "int", "int64", "integer", "str", "string"}

\* C27 (coercion warnings): for every entry of a loaded stream's type map whose
\* column is absent from the file or whose label is not recognised, the load
\* printed a warning about that column and cast nothing in it, an unrecognised
\* label on a column that exists included; and no load ended in an error for
\* it (the only load error is the missing time column's).
C27_CoercionWarnings ==
    /\ \A i \in 1..loaded :
          LET s == cfg.streams[i]
          IN  \A c \in DOMAIN s.types :
                  (c \notin s.csv.columns \/ s.types[c] \notin Recognised) =>
                      /\ c \in notes[i].printed
                      /\ \A x \in notes[i].cast : x[1] # c
    /\ (pc = "error" /\ loaded < Len(cfg.streams)) => SomeTimeColMissing

\* the text of a cell is no date, or does not match the explicit format
ParseFails(i, cell) ==
    ~cell.ok \/ (cfg.streams[i].time_fmt # None /\ cell.off # None)

\* C28 (retain policy): with drop_na_time=false the loaded frame holds every
\* row of the file exactly once, a row whose timestamp failed to parse with a
\* null timestamp and every other row with a timestamp; a text that does not
\* match the explicit format gives the null timestamp, and no load ends in an
\* error for it (the only load error is the missing time column's).
C28_RetainPolicy ==
    /\ \A i \in 1..Len(frames) :
          ~cfg.streams[i].drop_na_time =>
              /\ Len(frames[i]) = Len(cfg.streams[i].csv.rows)
              /\ {frames[i][k].idx : k \in 1..Len(frames[i])}
                   = 1..Len(cfg.streams[i].csv.rows)
              /\ \A k \in 1..Len(frames[i]) :
                    (frames[i][k].ts = NaT) <=> ParseFails(i, CellOf(i, frames[i][k]))
    /\ (err = "ValueError" /\ yielded = <<>>) => SomeTimeColMissing

\* a file of two rows read with an explicit format: the first spells a zone
\* the format has no place for, the second matches; both rows are in the
\* frame, the first with a null timestamp, and the run went on to yield
C28_Witness ==
    /\ Len(frames) = 1 /\ ~cfg.streams[1].drop_na_time
    /\ cfg.streams[1].time_fmt # None
    /\ Len(cfg.streams[1].csv.rows) = 2
    /\ cfg.streams[1].csv.rows[1].ok /\ cfg.streams[1].csv.rows[1].off # None
    /\ cfg.streams[1].csv.rows[2].ok /\ cfg.streams[1].csv.rows[2].off = None
    /\ frames[1] = <<[idx |-> 2, ts |-> <<cfg.streams[1].csv.rows[2].wall>>],
                     [idx |-> 1, ts |-> NaT]>>
    /\ Len(yielded) = 1

\* C29 (single sequential loop): while a transmit call for the yielded event
\* is pending, no step reads on or changes the heap, the iterators, the tie
\* counter or the popped entry, and nothing more is yielded; the heap and the
\* iterators change only in steps of merged_events itself; a loop iteration
\* (pop, sleep) and the refill for an event begin only when every yielded
\* event has been transmitted, so no two iterations overlap.
C29_SequentialLoop ==
    /\ [][pc = "yielded" =>
            /\ heaps' = heaps /\ iters' = iters /\ tie' = tie /\ cur' = cur
            /\ yielded' = yielded
            /\ pc' \in {"refill", "error", "cancelled"}]_vars
    /\ [][(heaps' # heaps \/ iters' # iters \/ tie' # tie) =>
            pc \in {"load", "pop", "refill"}]_vars
    /\ [](pc \in {"pop", "sleep", "refill"} =>
            /\ Len(transmitted) = Len(yielded)
            /\ event_count = Len(yielded))
    /\ [](pc = "yielded" => Len(transmitted) = Len(yielded) - 1)

\* the second event is with the consumer, whose publish call of the first
\* took 2.5 s; the first is transmitted, and the heap still holds the entry
\* the refill after the first event pushed
C29_Witness ==
    /\ pc = "yielded" /\ Len(yielded) = 2 /\ Len(transmitted) = 1
    /\ overhead /\ emit_at[2] >= 2500
    /\ Len(heaps) = 1 /\ heaps[1][3] = 2 /\ tie = 3

Reverse(s) == [k \in 1..Len(s) |-> s[Len(s) + 1 - k]]

\* the events merged_events yields for the same streams and the same loaded
\* rows when the configuration lists the streams in the opposite order
RelistedMerge ==
    MergeFrom(Armed(Reverse(cfg.streams), Reverse(frames), Window(cfg)), <<>>)

\* what a run has yielded is what the run over the opposite listing yields
SameAsRelisted ==
    LET other == RelistedMerge
    IN  /\ IsPrefix(yielded, other)
        /\ pc = "done" => yielded = other

\* C30 as claimed (listing-order independence): with distinct stream ids,
\* the sequence of (timestamp, stream id, row) triples merged_events yields
\* is the same when the streams are listed in another order, in every run.
C30_ListingOrder_AsClaimed == AllLoaded => SameAsRelisted

\* C30 as amended: the same, in every run in which no row with a null
\* timestamp survives loading and clipping.
C30_ListingOrder == (AllLoaded /\ NoNullTs) => SameAsRelisted

\* streams a = [0 s, 5 s] and b = [5 s] run to completion; listed as b, a the
\* heap numbers of the two rows at 5 s are the other way round, and the
\* yielded sequence is the same
C30_Witness ==
    /\ pc = "done" /\ AllLoaded /\ Len(cfg.streams) = 2 /\ NoNullTs
    /\ Len(ClipOf(1)) = 2 /\ Len(ClipOf(2)) = 1
    /\ [k \in 1..Len(yielded) |-> <<yielded[k][1], yielded[k][2]>>]
           = <<<<<<0>>, "a">>, <<<<5>>, "a">>, <<<<5>>, "b">>>>
    /\ cfg.streams[1].id = "a"
    /\ yielded = RelistedMerge

\* wall instant t is not before the ideal instant
\* wall_start + (ts - sim_start_ts) / speed of a record stamped ts
NotEarly(t, ts) ==
    (t - wall_start) * speed >= (ts[1] - sim_start_ts[1]) * MsPerSecond

\* the wait scheduler.py:151-154 computed for the popped record, before the cap
CurSleep ==
    SleepTime(target_wall(wall_start, cur[1], sim_start_ts, speed), now)

\* C31 (never early): an event whose ideal instant is defined is yielded at
\* or after that instant, unless the wait computed for it exceeded 2 s; then
\* it is yielded exactly 2 s after the clock reading of its iteration.  A
\* yield with no sleep happens at the clock reading; a sleep starts at the
\* clock reading and its event is yielded when it ends; the instant of a
\* yield is recorded once and never altered.
C31_NeverEarly ==
    /\ [][(pc = "pop" /\ pc' = "yielded") =>
            /\ emit_at' = Append(emit_at, now)
            /\ yielded' = Append(yielded, Event(heaps[1]))
            /\ RootSleep # NaN => NotEarly(now, heaps[1][1])]_vars
    /\ [][(pc = "pop" /\ pc' = "sleep") =>
            /\ now' = now /\ cur' = heaps[1]
            /\ RootSleep # NaN
            /\ sleep_time' = IF RootSleep[1] > Ceiling THEN <<Ceiling>>
                                                       ELSE RootSleep]_vars
    /\ [][(pc = "sleep" /\ pc' = "yielded") =>
            /\ emit_at' = Append(emit_at, now + sleep_time[1])
            /\ yielded' = Append(yielded, Event(cur))
            /\ IF CurSleep[1] > Ceiling
               THEN sleep_time[1] = Ceiling
               ELSE NotEarly(now + sleep_time[1], cur[1])]_vars
    /\ [][emit_at' # emit_at =>
            /\ pc \in {"pop", "sleep"} /\ pc' = "yielded"
            /\ SubSeq(emit_at', 1, Len(emit_at)) = emit_at]_vars

\* at speed 1.0 the second record, stamped 5 s after the first, was due 5 s
\* after the start; its wait was cut and it was yielded 2 s after the start,
\* 3 s before its ideal instant
C31_Witness ==
    /\ pc = "yielded" /\ Len(yielded) = 2 /\ speed = 10000 /\ ~overhead
    /\ yielded[2][1][1] = yielded[1][1][1] + 5
    /\ sleep_time = <<Ceiling>>
    /\ emit_at = <<wall_start, wall_start + Ceiling>>
    /\ ~NotEarly(emit_at[2], yielded[2][1])

\* merged_events is past scheduler.py:145 and has not returned or raised
Running == pc \in {"pop", "sleep", "yielded", "refill"}

\* C32 (fixed reference points): from the start of the loop on, no step
\* changes sim_start_ts, wall_start or speed, whether or not a wait was
\* capped; speed is the floored configured speed and sim_start_ts the
\* timestamp of the first record yielded; and the wait of every iteration is
\* computed from these three values and the clock.
C32_FixedReferences ==
    /\ [][pc # "load" =>
            /\ sim_start_ts' = sim_start_ts
            /\ wall_start' = wall_start
            /\ speed' = speed]_vars
    /\ [](Running =>
            /\ speed = EffSpeed(cfg.speed)
            /\ yielded # <<>> => sim_start_ts = yielded[1][1])
    /\ [][pc = "pop" =>
            sleep_time' = CapWait(SleepTime(
                target_wall(wall_start', heaps[1][1], sim_start_ts', speed'),
                now))]_vars

\* at speed 1.0 rows stamped 0 s, 5 s and 10 s: the second wait was capped,
\* and the third record's wait is still counted from the same wall_start and
\* sim_start_ts (due at 10 s, clock at 2 s, so capped again)
C32_Witness ==
    /\ pc = "sleep" /\ Len(yielded) = 2 /\ ~overhead /\ speed = 10000
    /\ clamped /\ waits = <<Ceiling, Ceiling>>
    /\ wall_start = emit_at[1] /\ sim_start_ts = yielded[1][1]
    /\ cur[1][1] = sim_start_ts[1] + 10
    /\ CurSleep = <<10000 - Ceiling>>

\* C33 (published count): when run_publish has left its loop, by normal
\* completion or by a client.publish call that raised, the event_count its
\* log lines report equals the number of client.publish calls that returned.
C33_PublishedCount ==
    (pc = "done" \/ (pc = "error" /\ err = "MqttError")) =>
        event_count = Len(transmitted)

\* cfg.start or cfg.end is configured (scheduler.py:106-107)
WindowSet == cfg.start # None \/ cfg.end # None

\* some loaded frame still holds a row with a null timestamp
RetainedNull ==
    \E i \in 1..Len(frames) : \E k \in 1..Len(frames[i]) : frames[i][k].ts = NaT

\* C34 (null timestamps and the window): when a start or an end bound is
\* configured, no entry of the heap, no popped entry and no yielded event has
\* a null timestamp, whatever drop_na_time is and whatever rows the loaded
\* frames retain: _clip keeps no such row.
C34_NullTsWindow ==
    WindowSet =>
        /\ \A k \in 1..Len(heaps) : heaps[k][1] # NaT
        /\ \A k \in 1..Len(yielded) : yielded[k][1] # NaT
        /\ cur # NoEntry => cur[1] # NaT
        /\ \A i \in 1..Len(iters) :
               \A k \in 1..Len(iters[i].df) : iters[i].df[k].ts # NaT

\* drop_na_time = false and an end bound of 5 s: the frame retained a
\* null-timestamp row beside a row at 0 s or 5 s; the run completed having
\* yielded the timed row only
C34_Witness ==
    /\ pc = "done" /\ Len(cfg.streams) = 1 /\ ~cfg.streams[1].drop_na_time
    /\ cfg.start = None /\ cfg.end = <<5>>
    /\ Len(frames[1]) = 2 /\ RetainedNull
    /\ Len(yielded) = 1 /\ yielded[1][1] # NaT

\* the two timestamps are one component to tuple comparison: the same object
\* (NaT) or equal
SameTs(x, y) == (x = NaT /\ y = NaT) \/ TsEq(x, y)

\* the component of (ts, stream_id, tie, it, row) at which the comparison of
\* entries x and y is decided; 4 when it reaches the iterator
DecidedAt(x, y) ==
    IF ~SameTs(x[1], y[1]) THEN 1
    ELSE IF x[2] # y[2] THEN 2
    ELSE IF x[3] # y[3] THEN 3
    ELSE 4

\* pairs of distinct places of the heap
HeapPairs == {p \in (1..Len(heaps)) \X (1..Len(heaps)) : p[1] # p[2]}

\* all entries differ in (ts, stream_id, tie), every number in the heap was
\* handed out once and is below the counter, and no comparison of two
\* entries gets past the number
DistinctKeys ==
    /\ \A p \in HeapPairs :
           /\ heaps[p[1]][3] # heaps[p[2]][3]
           /\ DecidedAt(heaps[p[1]], heaps[p[2]]) <= 3
    /\ \A k \in 1..Len(heaps) : heaps[k][3] < tie
    /\ (Popped /\ cur # NoEntry) =>
           \A k \in 1..Len(heaps) : cur[3] # heaps[k][3]

\* of any two entries of the heap one is less than the other
TotalOrder ==
    \A p \in HeapPairs :
        TupleLess(heaps[p[1]], heaps[p[2]]) \/ TupleLess(heaps[p[2]], heaps[p[1]])

\* C35 as claimed (unique heap keys): at every moment all heap entries differ
\* in (timestamp, stream id, number), numbers are never reused, the ordering
\* of the entries is total and no comparison reaches the iterator or the row
\* (stated for the moments of a run in which nothing has been raised).
C35_UniqueKeys_AsClaimed == err = "" => (DistinctKeys /\ TotalOrder)

\* C35 as amended: the same, with the ordering total whenever no entry of the
\* heap has a null timestamp.
C35_UniqueKeys ==
    /\ DistinctKeys
    /\ (\A k \in 1..Len(heaps) : heaps[k][1] # NaT) => TotalOrder

\* both streams have a row at 5 s in the heap: the entries have the same
\* timestamp, differ in stream id and in number, and a's is at the root
C35_Witness ==
    /\ pc = "pop" /\ Len(heaps) = 2
    /\ heaps[1][1] = <<5>> /\ heaps[2][1] = <<5>>
    /\ heaps[1][2] = "a" /\ heaps[2][2] = "b"
    /\ heaps[1][3] = 2 /\ heaps[2][3] = 1
    /\ DecidedAt(heaps[1], heaps[2]) = 2
    /\ TupleLess(heaps[1], heaps[2])

====
